---- MODULE Spec2Model ----
(***************************************************************************)
(* Model of the regret-minimisation training substrate of the poker        *)
(* trainer: the betting-history state machine (ActionHistory) and the      *)
(* regret-matching node (Node) of trainer_utils.py.                        *)
(*                                                                         *)
(* Python values are represented as follows.                               *)
(*   - A street of a history is None, a tuple or a list of action tokens:  *)
(*     a record [kind, seq] with kind in {"none", "tuple", "list"}.        *)
(*   - Chip amounts are integers.  The only division of the replay is      *)
(*     pot / 2 (half_pot); HalfPotExact states that it is only ever        *)
(*     applied to an even pot, so no fractional chip arises.               *)
(*   - The real numbers of a node (regrets are integers here; strategies   *)
(*     and strategy sums are fractions) are exact rationals <<num, den>>   *)
(*     in lowest terms with den > 0.                                       *)
(*   - An operation that raises returns a record whose err field names     *)
(*     the exception.                                                      *)
(***************************************************************************)
EXTENDS Integers, Sequences, FiniteSets, TLC

VARIABLES
    history,                \* the ActionHistory the training driver holds; for a
                            \* node, the history of its information set
    regrets,                \* Node.regrets: action -> cumulative regret
    weighted_strategy_sum,  \* Node.weighted_strategy_sum: action -> rational
    t,                      \* Node.t: visit counter
    ret,                    \* the last call on the node, its arguments and outcome
    played,                 \* history variable: action -> the sum over the
                            \* current_strategy calls so far of prob * strategy
    supplied,               \* history variable: action -> the sum of the values
                            \* add_regret was given for it
    calls,                  \* history variable: the number of calls made on
                            \* the node
    heap,                   \* the tuple and list objects of the histories of
                            \* hists: object id -> [kind, seq]
    hists,                  \* the ActionHistory objects built so far: each
                            \* street holds an object id, or 0 for None
    hand,                   \* the hand handed to the canonicalizers
    canon,                  \* the last canonicalizer call and what it returned
    isomorphic_suits,       \* the module's table of suit relabelings (<<>> while
                            \* the module is not loaded)
    deck,                   \* the shuffled deck of the hand being played
    infoset,                \* the InfoSet made last
    game                    \* the Rhode Island Game and the locals of its betting()

vars == <<history, regrets, weighted_strategy_sum, t, ret, played, supplied, calls,
          heap, hists, hand, canon, isomorphic_suits, deck, infoset, game>>
nodeState == <<regrets, weighted_strategy_sum, t>>
nodeVars == <<regrets, weighted_strategy_sum, t, ret, played, supplied, calls>>
objectVars == <<heap, hists>>
canonVars == <<hand, canon, isomorphic_suits>>
deckVars == <<deck, infoset>>

\* no history objects, no hand and no deck are in use
ObjectsIdle == heap = <<>> /\ hists = <<>>
CanonIdle ==
    /\ hand = <<>>
    /\ canon = [fn |-> "init", err |-> "", val |-> <<>>]
    /\ isomorphic_suits = <<>>
NoInfoSet == [err |-> "", made |-> FALSE, history |-> <<>>, card_bucket |-> 0, hand |-> <<>>]
DeckIdle == deck = <<>> /\ infoset = NoInfoSet
GameIdle == game = [pc |-> "idle"]

----------------------------------------------------------------------------
(* Program constants                                                       *)

PREFLOP_ACTIONS == <<"fold", "call", "limp", "raise", "3-bet", "4-bet", "all-in">>
POSTFLOP_ACTIONS == <<"fold", "check", "call", "half_pot", "pot", "min_raise", "all-in">>
ALL_ACTIONS == PREFLOP_ACTIONS \o POSTFLOP_ACTIONS
BIG_BLIND == 100
STACK_SIZE == 20000

Range(s) == {s[i] : i \in 1..Len(s)}

----------------------------------------------------------------------------
(* Python sequence values                                                  *)

None == [kind |-> "none", seq |-> <<>>]
Tuple(s) == [kind |-> "tuple", seq |-> s]
List(s) == [kind |-> "list", seq |-> s]

\* conditional_copy(l): None stays None, anything else becomes a fresh list
conditional_copy(l) == IF l = None THEN None ELSE List(l.seq)

\* ActionHistory.__init__
ActionHistory(preflop, flop, turn, river) ==
    [preflop |-> preflop, flop |-> flop, turn |-> turn, river |-> river]

\* the empty preflop history the driver starts a hand with
EmptyHistory == ActionHistory(Tuple(<<>>), None, None, None)

----------------------------------------------------------------------------
(* ActionHistory.street / street_is_over                                   *)

\* street_is_over as it would be if one check closed a street
street_is_over_OneCheck(street_history) ==
    LET n == Len(street_history) IN
    \/ (n >= 1 /\ street_history[n] = "call")
    \/ (n >= 1 /\ street_history[n] = "check")

street_is_over(street_history) ==
    LET n == Len(street_history) IN
    \/ (n >= 1 /\ street_history[n] = "call")
    \/ (n >= 2 /\ street_history[n] = "check" /\ street_history[n-1] = "check")

street(h) ==
    IF h.river # None
    THEN IF street_is_over(h.river.seq) THEN "over" ELSE "river"
    ELSE IF h.turn # None
    THEN IF street_is_over(h.turn.seq) THEN "river" ELSE "turn"
    ELSE IF h.flop # None
    THEN IF street_is_over(h.flop.seq) THEN "turn" ELSE "flop"
    ELSE IF street_is_over(h.preflop.seq) THEN "flop" ELSE "preflop"

\* ActionHistory.current_street_history: None when the street is "over"
current_street_history(h) ==
    LET s == street(h) IN
    IF s = "preflop" THEN h.preflop
    ELSE IF s = "flop" THEN h.flop
    ELSE IF s = "turn" THEN h.turn
    ELSE IF s = "river" THEN h.river
    ELSE None

\* ActionHistory.whose_turn
whose_turn(h) ==
    LET hist == current_street_history(h) IN
    IF hist = None THEN 0 ELSE Len(hist.seq) % 2

\* ActionHistory.last_action ("None" stands for Python's None)
last_action(h) ==
    LET hist == current_street_history(h) IN
    IF hist = None \/ Len(hist.seq) = 0 THEN "None" ELSE hist.seq[Len(hist.seq)]

\* hand_over as it would be without the test for a fold
hand_over_StreetOnly(h) ==
    IF street(h) = "over" THEN TRUE
    ELSE FALSE

\* hand_over as it would be if an all-in ended the hand
hand_over_AllInEnds(h) ==
    IF street(h) = "over" THEN TRUE
    ELSE IF last_action(h) \in {"fold", "all-in"} THEN TRUE
    ELSE FALSE

\* ActionHistory.hand_over
hand_over(h) ==
    IF street(h) = "over" THEN TRUE
    ELSE IF last_action(h) = "fold" THEN TRUE
    ELSE FALSE

----------------------------------------------------------------------------
(* ActionHistory.__add__                                                   *)

\* x += (action,) for a street x that was copied by conditional_copy:
\* a list is extended; an absent street is first set to () and the sum of
\* two tuples is a tuple
PlusAction(x, action) ==
    IF x = None THEN Tuple(<<action>>) ELSE List(Append(x.seq, action))

\* __add__ as it would be if the action that closes a street also created
\* the empty sequence of the next street
Add_Eager(h, action) ==
    LET preflop == conditional_copy(h.preflop)
        flop == conditional_copy(h.flop)
        turn == conditional_copy(h.turn)
        river == conditional_copy(h.river)
        s == street(h)
        new == IF s = "preflop" THEN List(Append(preflop.seq, action))
               ELSE IF s = "flop" THEN PlusAction(flop, action)
               ELSE IF s = "turn" THEN PlusAction(turn, action)
               ELSE PlusAction(river, action)
        closes == street_is_over(new.seq)
    IN  IF s = "preflop"
            THEN ActionHistory(new, IF closes THEN Tuple(<<>>) ELSE flop, turn, river)
        ELSE IF s = "flop"
            THEN ActionHistory(preflop, new, IF closes THEN Tuple(<<>>) ELSE turn, river)
        ELSE IF s = "turn"
            THEN ActionHistory(preflop, flop, new, IF closes THEN Tuple(<<>>) ELSE river)
        ELSE IF s = "river" THEN ActionHistory(preflop, flop, turn, new)
        ELSE ActionHistory(preflop, flop, turn, river)

\* __add__ as it would be if an action applied after the river closed were
\* appended to the river
Add_AppendsWhenOver(h, action) ==
    LET preflop == conditional_copy(h.preflop)
        flop == conditional_copy(h.flop)
        turn == conditional_copy(h.turn)
        river == conditional_copy(h.river)
        s == street(h)
    IN  IF s = "preflop" THEN ActionHistory(List(Append(preflop.seq, action)), flop, turn, river)
        ELSE IF s = "flop" THEN ActionHistory(preflop, PlusAction(flop, action), turn, river)
        ELSE IF s = "turn" THEN ActionHistory(preflop, flop, PlusAction(turn, action), river)
        ELSE ActionHistory(preflop, flop, turn, PlusAction(river, action))

Add(h, action) ==
    LET preflop == conditional_copy(h.preflop)
        flop == conditional_copy(h.flop)
        turn == conditional_copy(h.turn)
        river == conditional_copy(h.river)
        s == street(h)
    IN  IF s = "preflop" THEN ActionHistory(List(Append(preflop.seq, action)), flop, turn, river)
        ELSE IF s = "flop" THEN ActionHistory(preflop, PlusAction(flop, action), turn, river)
        ELSE IF s = "turn" THEN ActionHistory(preflop, flop, PlusAction(turn, action), river)
        ELSE IF s = "river" THEN ActionHistory(preflop, flop, turn, PlusAction(river, action))
        ELSE ActionHistory(preflop, flop, turn, river)

----------------------------------------------------------------------------
(* ActionHistory.pot_size: the replay of a history                         *)

RECURSIVE SumFrom(_, _)
SumFrom(s, i) == IF i > Len(s) THEN 0 ELSE s[i] + SumFrom(s, i + 1)

\* sum(s) of a list of numbers
Sum(s) == SumFrom(s, 1)

Last(s) == s[Len(s)]

\* pot / 2.  Python's true division; the replay state records in `frac'
\* whether an odd pot was ever halved (HalfPotExact: it never is)
Half(pot) == pot \div 2

\* the start of the replay as it would be if the big blind counted as a bet
\* of player 1 already made
ReplayStart_Blind ==
    [stack_sizes |-> <<STACK_SIZE, STACK_SIZE>>, player |-> 0, prev_bet |-> 0,
     bets |-> << <<0>>, <<BIG_BLIND>> >>, bet |-> 0, bound |-> FALSE, pot |-> 0,
     broke |-> FALSE, frac |-> FALSE, err |-> ""]

\* The local variables of pot_size.  Players 0 and 1 are indices 1 and 2 of
\* stack_sizes and bets.  bound: whether the local `bet' has been assigned;
\* broke: whether the loop over the street in progress was left by `break';
\* err: the exception raised so far ("" for none)
ReplayStart ==
    [stack_sizes |-> <<STACK_SIZE, STACK_SIZE>>, player |-> 0, prev_bet |-> 0,
     bets |-> << <<0>>, <<0>> >>, bet |-> 0, bound |-> FALSE, pot |-> 0,
     broke |-> FALSE, frac |-> FALSE, err |-> ""]

\* the tail of the loop bodies as it would be without the debit of the stack
Debit_KeepsStack(r) ==
    LET p == r.player + 1
        prev == Last(r.bets[p])
    IN  [r EXCEPT !.prev_bet = prev,
                  !.player = 1 - r.player]

\* the tail of both loop bodies: prev_bet = bets[player][-1], the debit of
\* the player's stack and the change of player
Debit(r) ==
    LET p == r.player + 1
        prev == Last(r.bets[p])
    IN  [r EXCEPT !.prev_bet = prev,
                  !.stack_sizes[p] = @ - prev,
                  !.player = 1 - r.player]

\* one iteration of the loop over self.preflop
PreflopStep(r, action) ==
    LET p == r.player + 1
        o == (1 - r.player) + 1
        call == Sum(r.bets[o]) - Sum(r.bets[p])
    IN  IF r.broke THEN r
        ELSE IF action = "limp" THEN Debit([r EXCEPT !.bets[p] = Append(@, BIG_BLIND)])
        ELSE IF action = "call"
            THEN Debit([r EXCEPT !.bets[p] = Append(@, call), !.bet = call, !.bound = TRUE])
        ELSE IF action = "raise" THEN Debit([r EXCEPT !.bets[p] = Append(@, 3 * BIG_BLIND)])
        ELSE IF action = "3-bet" THEN Debit([r EXCEPT !.bets[p] = Append(@, 3 * r.prev_bet)])
        ELSE IF action = "4-bet" THEN Debit([r EXCEPT !.bets[p] = Append(@, 3 * r.prev_bet)])
        ELSE IF action = "all-in" THEN Debit([r EXCEPT !.bets[p] = Append(@, r.stack_sizes[p])])
        ELSE IF action = "fold" THEN [r EXCEPT !.broke = TRUE]
        ELSE Debit(r)

\* one iteration of the loop over a postflop street
PostflopStep(r, action) ==
    LET p == r.player + 1
        o == (1 - r.player) + 1
        known == action \in {"check", "call", "half_pot", "pot", "min_raise", "all-in"}
        bet == IF action = "check" THEN 0
               ELSE IF action = "call" THEN Sum(r.bets[o]) - Sum(r.bets[p])
               ELSE IF action = "half_pot" THEN Half(r.pot)
               ELSE IF action = "pot" THEN r.pot
               ELSE IF action = "min_raise" THEN 2 * r.prev_bet
               ELSE IF action = "all-in" THEN r.stack_sizes[p]
               ELSE r.bet
    IN  IF r.broke \/ r.err # "" THEN r
        ELSE IF action = "fold" THEN [r EXCEPT !.broke = TRUE]
        ELSE IF ~known /\ ~r.bound THEN [r EXCEPT !.err = "UnboundLocalError"]
        ELSE LET d == Debit([r EXCEPT !.bets[p] = Append(@, bet), !.bet = bet,
                                      !.bound = TRUE])
             IN  [d EXCEPT !.pot = r.pot + bet,
                           !.frac = r.frac \/ (action = "half_pot" /\ r.pot % 2 # 0)]

RECURSIVE PreflopLoop(_, _, _)
PreflopLoop(r, s, i) ==
    IF i > Len(s) THEN r ELSE PreflopLoop(PreflopStep(r, s[i]), s, i + 1)

RECURSIVE PostflopLoop(_, _, _)
PostflopLoop(r, s, i) ==
    IF i > Len(s) THEN r ELSE PostflopLoop(PostflopStep(r, s[i]), s, i + 1)

\* the loop body as it would be if the player to be debited carried over
\* from the street before
StreetReplay_NoReset(r, x) ==
    IF x = None THEN r
    ELSE PostflopLoop([r EXCEPT !.prev_bet = 0, !.broke = FALSE], x.seq, 1)

\* the body of `for street in self.flop, self.turn, self.river'
StreetReplay(r, x) ==
    IF x = None THEN r
    ELSE PostflopLoop([r EXCEPT !.player = 0, !.prev_bet = 0, !.broke = FALSE], x.seq, 1)

\* pot_size(return_stack_sizes=True): [err, pot, stack_sizes]; err is
\* "ValueError" for 'Invalid bet history: bets exceed stack size.'
pot_size(h) ==
    LET pre0 == PreflopLoop(ReplayStart, h.preflop.seq, 1)
        pre == [pre0 EXCEPT !.pot = Sum(pre0.bets[1]) + Sum(pre0.bets[2])]
        r == StreetReplay(StreetReplay(StreetReplay(pre, h.flop), h.turn), h.river)
    IN  [err |-> IF r.err # "" THEN r.err
                 ELSE IF r.stack_sizes[1] < 0 \/ r.stack_sizes[2] < 0 THEN "ValueError"
                 ELSE "",
         pot |-> r.pot, stack_sizes |-> r.stack_sizes, frac |-> r.frac]

\* ActionHistory.stack_sizes
stack_sizes(h) == pot_size(h).stack_sizes

----------------------------------------------------------------------------
(* ActionHistory.legal_actions                                             *)

\* the preflop branch as it would be if a 4-bet could be answered by
\* another 4-bet
PreflopTable_ReRaise(prev_action) ==
    IF prev_action = "None" THEN <<"fold", "limp", "raise">>
    ELSE IF prev_action = "limp" THEN <<"fold", "call", "raise">>
    ELSE IF prev_action = "raise" THEN <<"fold", "call", "3-bet">>
    ELSE IF prev_action = "3-bet" THEN <<"fold", "call", "4-bet", "all-in">>
    ELSE IF prev_action = "4-bet" THEN <<"fold", "call", "4-bet", "all-in">>
    ELSE IF prev_action = "all-in" THEN <<"fold", "call">>
    ELSE <<>>

\* the preflop branch: the tuple returned without any replay, or <<>> when
\* no branch matches and control falls through to the postflop part
PreflopTable(prev_action) ==
    IF prev_action = "None" THEN <<"fold", "limp", "raise">>
    ELSE IF prev_action = "limp" THEN <<"fold", "call", "raise">>
    ELSE IF prev_action = "raise" THEN <<"fold", "call", "3-bet">>
    ELSE IF prev_action = "3-bet" THEN <<"fold", "call", "4-bet", "all-in">>
    ELSE IF prev_action = "4-bet" THEN <<"fold", "call", "all-in">>
    ELSE IF prev_action = "all-in" THEN <<"fold", "call">>
    ELSE <<>>

\* PostflopTable as it would be with min_raise missing from the test of the
\* previous bet
PostflopTable_NoMinRaise(prev_action) ==
    IF prev_action = "None" THEN <<"check", "half_pot", "pot", "all-in">>
    ELSE IF prev_action = "check" THEN <<"check", "half_pot", "pot", "all-in">>
    ELSE IF prev_action \in {"half_pot", "pot"}
        THEN <<"fold", "call", "min_raise", "all-in">>
    ELSE IF prev_action = "all-in" THEN <<"fold", "call">>
    ELSE <<>>

\* the postflop candidates; <<>> stands for ValueError('Unknown previous action')
PostflopTable(prev_action) ==
    IF prev_action = "None" THEN <<"check", "half_pot", "pot", "all-in">>
    ELSE IF prev_action = "check" THEN <<"check", "half_pot", "pot", "all-in">>
    ELSE IF prev_action \in {"half_pot", "pot", "min_raise"}
        THEN <<"fold", "call", "min_raise", "all-in">>
    ELSE IF prev_action = "all-in" THEN <<"fold", "call">>
    ELSE <<>>

\* the trial as it would be if a replay that leaves a player without chips
\* failed as well
TrialFails_Strict(h, action) ==
    \/ pot_size(Add(h, action)).err = "ValueError"
    \/ pot_size(Add(h, action)).stack_sizes[1] = 0
    \/ pot_size(Add(h, action)).stack_sizes[2] = 0

\* whether the trial replay of self + action raises ValueError
TrialFails(h, action) == pot_size(Add(h, action)).err = "ValueError"

\* StackFilter as it would be if the trial replay's failure were not caught
\* as a removal
StackFilter_KeepAll(h, actions) == actions

\* StackFilter as it would be if a raise were never allowed
StackFilter_NoMinRaise(h, actions) ==
    SelectSeq(actions, LAMBDA a : a # "min_raise" /\ ~TrialFails(h, a))

\* the loop `for action in actions.copy()': the candidates whose trial
\* replay raises ValueError are removed, the others keep their order
StackFilter(h, actions) == SelectSeq(actions, LAMBDA a : ~TrialFails(h, a))

\* legal_actions(): [err, val]
legal_actions(h) ==
    LET prev_action == last_action(h)
        pre == PreflopTable(prev_action)
        post == PostflopTable(prev_action)
        pot == pot_size(h)
    IN  IF street(h) = "preflop" /\ pre # <<>> THEN [err |-> "", val |-> pre]
        ELSE IF pot.err # "" THEN [err |-> pot.err, val |-> <<>>]
        ELSE IF post = <<>> THEN [err |-> "ValueError: Unknown previous action", val |-> <<>>]
        ELSE [err |-> "", val |-> StackFilter(h, post)]

----------------------------------------------------------------------------
(* The training driver's walk of the betting tree: from the empty preflop  *)
(* history it applies an action that legal_actions() of the history it     *)
(* holds returns.                                                          *)

\* no node is in use during the walk
NodeIdle ==
    /\ regrets = <<>>
    /\ weighted_strategy_sum = <<>>
    /\ t = 0
    /\ ret = [op |-> "init", action |-> "", value |-> 0, prob |-> <<0, 1>>,
              err |-> "", result |-> <<>>]
    /\ played = <<>>
    /\ supplied = <<>>
    /\ calls = 0

Init ==
    /\ history = EmptyHistory
    /\ NodeIdle
    /\ ObjectsIdle
    /\ CanonIdle
    /\ DeckIdle
    /\ GameIdle

\* the actions the driver may take: none when legal_actions() raises
LegalNow(h) == Range(legal_actions(h).val)

\* history = history + action
Apply(action) ==
    /\ history' = Add(history, action)
    /\ UNCHANGED <<nodeVars, objectVars, canonVars, deckVars, game>>

Next == \E action \in LegalNow(history) : Apply(action)

Spec == Init /\ [][Next]_vars

\* The walk of one hand: the driver goes on only while hand_over() is false.
PlayNext == ~hand_over(history) /\ Next

\* the driver cannot go on: the hand is over or no action is legal
Stopped == hand_over(history) \/ LegalNow(history) = {}

\* The driver does go on while it can: weak fairness of PlayNext, written
\* with its enabling condition spelled out.  PlayNext is enabled exactly
\* when ~Stopped (every action it applies lengthens the history), and
\* every step of the walk that changes the history is a PlayNext step.
PlayFairness == ([]<>Stopped) \/ ([]<><<history' # history>>_vars)

PlaySpec == Init /\ [][PlayNext]_vars /\ PlayFairness

----------------------------------------------------------------------------
(* Histories built by + from any tokens, legal or not: what apply does     *)
(* when the caller does not consult legal_actions().                       *)

MaxApply == 5

\* the tokens tried: both closing tokens and tokens of either vocabulary
FreeTokens == {"fold", "call", "check", "raise", "min_raise", "all-in"}

HistoryLen(h) ==
    Len(h.preflop.seq) + Len(h.flop.seq) + Len(h.turn.seq) + Len(h.river.seq)

\* history = history + action, for any token
ApplyAny(action) ==
    /\ HistoryLen(history) < MaxApply
    /\ history' = Add(history, action)
    /\ UNCHANGED <<nodeVars, objectVars, canonVars, deckVars, game>>

FreeNext == \E action \in FreeTokens : ApplyAny(action)

FreeSpec == Init /\ [][FreeNext]_vars

----------------------------------------------------------------------------
(* Exact rational numbers <<numerator, denominator>>, in lowest terms with *)
(* a positive denominator: the values of strategies, reach probabilities   *)
(* and strategy sums.                                                      *)

Abs(x) == IF x < 0 THEN -x ELSE x

RECURSIVE GCD(_, _)
GCD(a, b) == IF b = 0 THEN a ELSE GCD(b, a % b)

\* n / d for d # 0
Rat(n, d) ==
    LET g == GCD(Abs(n), Abs(d))
        sgn == IF d < 0 THEN -1 ELSE 1
    IN  <<(sgn * n) \div g, (sgn * d) \div g>>

Zero == <<0, 1>>
One == <<1, 1>>
FromInt(n) == <<n, 1>>
RAdd(x, y) == Rat(x[1] * y[2] + y[1] * x[2], x[2] * y[2])
RMul(x, y) == Rat(x[1] * y[1], x[2] * y[2])
RDiv(x, y) == Rat(x[1] * y[2], x[2] * y[1])
RPos(x) == x[1] > 0
RNonNeg(x) == x[1] >= 0

\* sum(d.values()) for a dictionary of rationals, of integers
RECURSIVE RSum(_, _)
RSum(d, keys) ==
    IF keys = {} THEN Zero
    ELSE LET k == CHOOSE k \in keys : TRUE IN RAdd(d[k], RSum(d, keys \ {k}))

RECURSIVE ISum(_, _)
ISum(d, keys) ==
    IF keys = {} THEN 0
    ELSE LET k == CHOOSE k \in keys : TRUE IN d[k] + ISum(d, keys \ {k})

----------------------------------------------------------------------------
(* Node                                                                    *)

\* the number of calls made on one node
MaxCalls == 4

\* the values add_regret is called with
Values == {-1, 1, 2}

\* the reach probabilities current_strategy is called with
Probs == {Zero, Rat(1, 2), One}

\* a token that is in no node's action set below
OutsideTokens == {"check"}

\* the histories whose information sets the nodes are built for: the start
\* of the hand, and the flop facing an all-in after (limp, call)
NodeHistories ==
    {EmptyHistory, Add(Add(Add(EmptyHistory, "limp"), "call"), "all-in")}

\* InfoSet.legal_actions of the node's information set
NodeActions == legal_actions(history).val

\* normalize(dictionary): [err, val]; the division by a zero total raises
\* at the first key, before any entry is changed
normalize(dictionary) ==
    LET total == RSum(dictionary, DOMAIN dictionary) IN
    IF total = Zero /\ DOMAIN dictionary # {}
    THEN [err |-> "ZeroDivisionError", val |-> dictionary]
    ELSE [err |-> "", val |-> [k \in DOMAIN dictionary |-> RDiv(dictionary[k], total)]]

\* strategy_weights as it would be if the uniform branch were taken when no
\* regret is positive instead of when the regrets sum to zero
strategy_weights_NoPositive(regs, actions) ==
    IF \A a \in DOMAIN regs : regs[a] <= 0
    THEN [a \in Range(actions) |-> One]
    ELSE [a \in Range(actions) |-> IF regs[a] < 0 THEN Zero ELSE FromInt(regs[a])]

\* the dictionary current_strategy builds before it normalises it
strategy_weights(regs, actions) ==
    IF ISum(regs, DOMAIN regs) = 0
    THEN [a \in Range(actions) |-> One]
    ELSE [a \in Range(actions) |-> IF regs[a] < 0 THEN Zero ELSE FromInt(regs[a])]

\* the strategy current_strategy returns: [err, val]
current_strategy(regs, actions) == normalize(strategy_weights(regs, actions))

\* visits as it would be if every call counted as a visit
visits_EveryCall(n, prob) == n + 1

\* self.t after `if prob > 0: self.t += 1'
visits(n, prob) == IF RPos(prob) THEN n + 1 ELSE n

\* cumulative_strategy(): [result, sums], the strategy returned and the
\* accumulator it leaves.  With a non-zero accumulator `strategy' is the
\* accumulator itself, which normalize changes in place
cumulative_strategy(sums, actions) ==
    IF RSum(sums, DOMAIN sums) = Zero
    THEN [result |-> normalize([a \in Range(actions) |-> One]).val, sums |-> sums]
    ELSE [result |-> normalize(sums).val, sums |-> normalize(sums).val]

Call(op, action, value, prob, err, result) ==
    [op |-> op, action |-> action, value |-> value, prob |-> prob,
     err |-> err, result |-> result]

\* Node.__init__ over the information set of one of NodeHistories
NodeInit ==
    /\ history \in NodeHistories
    /\ regrets = [a \in Range(NodeActions) |-> 0]
    /\ weighted_strategy_sum = [a \in Range(NodeActions) |-> Zero]
    /\ t = 0
    /\ ret = Call("init", "", 0, Zero, "", <<>>)
    /\ played = [a \in Range(NodeActions) |-> Zero]
    /\ supplied = [a \in Range(NodeActions) |-> 0]
    /\ calls = 0
    /\ ObjectsIdle
    /\ CanonIdle
    /\ DeckIdle
    /\ GameIdle

\* Node.current_strategy(prob)
CurrentStrategy(prob) ==
    LET actions == NodeActions
        res == current_strategy(regrets, actions)
    IN  /\ calls < MaxCalls
        /\ calls' = calls + 1
        /\ IF res.err # ""
           THEN /\ ret' = Call("current_strategy", "", 0, prob, res.err, <<>>)
                /\ UNCHANGED <<regrets, weighted_strategy_sum, t, played, supplied, game>>
           ELSE /\ weighted_strategy_sum' =
                     [a \in DOMAIN weighted_strategy_sum |->
                        IF a \in Range(actions)
                        THEN RAdd(weighted_strategy_sum[a], RMul(res.val[a], prob))
                        ELSE weighted_strategy_sum[a]]
                /\ t' = visits(t, prob)
                /\ ret' = Call("current_strategy", "", 0, prob, "", res.val)
                /\ played' = [a \in DOMAIN played |-> RAdd(played[a], RMul(res.val[a], prob))]
                /\ UNCHANGED <<regrets, supplied, game>>
        /\ UNCHANGED <<history, objectVars, canonVars, deckVars, game>>

\* Node.cumulative_strategy()
CumulativeStrategy ==
    LET res == cumulative_strategy(weighted_strategy_sum, NodeActions) IN
    /\ calls < MaxCalls
    /\ calls' = calls + 1
    /\ weighted_strategy_sum' = res.sums
    /\ ret' = Call("cumulative_strategy", "", 0, Zero, "", res.result)
    /\ UNCHANGED <<history, regrets, t, played, supplied, objectVars, canonVars, deckVars, game>>

\* AddRegret as it would be if the regret were floored at zero
AddRegret_Floored(action, value) ==
    /\ calls < MaxCalls
    /\ calls' = calls + 1
    /\ IF action \notin DOMAIN regrets
       THEN /\ ret' = Call("add_regret", action, value, Zero, "KeyError", <<>>)
            /\ UNCHANGED <<regrets, supplied, game>>
       ELSE /\ regrets' = [regrets EXCEPT ![action] =
                              IF @ + value < 0 THEN 0 ELSE @ + value]
            /\ ret' = Call("add_regret", action, value, Zero, "", <<>>)
            /\ supplied' = [supplied EXCEPT ![action] = @ + value]
    /\ UNCHANGED <<history, weighted_strategy_sum, t, played, objectVars, canonVars, deckVars, game>>

\* AddRegret as it would be if regrets were a dictionary with a default
\* value: an unknown action silently gets an entry
AddRegret_Creates(action, value) ==
    /\ calls < MaxCalls
    /\ calls' = calls + 1
    /\ regrets' = [a \in DOMAIN regrets \cup {action} |->
                     IF a \in DOMAIN regrets /\ a # action THEN regrets[a]
                     ELSE IF a \in DOMAIN regrets THEN regrets[a] + value
                     ELSE value]
    /\ ret' = Call("add_regret", action, value, Zero, "", <<>>)
    /\ supplied' = [a \in DOMAIN supplied \cup {action} |->
                      IF a \in DOMAIN supplied /\ a # action THEN supplied[a]
                      ELSE IF a \in DOMAIN supplied THEN supplied[a] + value
                      ELSE value]
    /\ UNCHANGED <<history, weighted_strategy_sum, t, played, objectVars, canonVars, deckVars, game>>

\* Node.add_regret(action, regret): self.regrets[action] += regret reads the
\* entry first, so an action that is no key raises KeyError
AddRegret(action, value) ==
    /\ calls < MaxCalls
    /\ calls' = calls + 1
    /\ IF action \notin DOMAIN regrets
       THEN /\ ret' = Call("add_regret", action, value, Zero, "KeyError", <<>>)
            /\ UNCHANGED <<regrets, supplied, game>>
       ELSE /\ regrets' = [regrets EXCEPT ![action] = @ + value]
            /\ ret' = Call("add_regret", action, value, Zero, "", <<>>)
            /\ supplied' = [supplied EXCEPT ![action] = @ + value]
    /\ UNCHANGED <<history, weighted_strategy_sum, t, played, objectVars, canonVars, deckVars, game>>

NodeNext ==
    \/ \E prob \in Probs : CurrentStrategy(prob)
    \/ CumulativeStrategy
    \/ \E action \in Range(NodeActions) \cup OutsideTokens :
         \E value \in Values : AddRegret(action, value)

NodeSpec == NodeInit /\ [][NodeNext]_vars

----------------------------------------------------------------------------
(* ActionHistory objects on the heap.  A street attribute refers to a      *)
(* tuple or list object (its index in heap) or is None (0); a tuple is     *)
(* immutable and a list is extended in place by +=, so whether two         *)
(* histories share an object matters.  Every history of hists also records *)
(* how it was made: by + from history src with token action, or (src = 0)  *)
(* by a call of the constructor.                                           *)

\* the number of ActionHistory objects made in one run
MaxHists == 6

\* the tokens the branching caller applies
BranchTokens == {"call", "check"}

\* the value of the object a street attribute refers to
Value(hp, ref) == IF ref = 0 THEN None ELSE hp[ref]

\* the values of the four streets of the history object o
Deref(hp, o) ==
    ActionHistory(Value(hp, o.preflop), Value(hp, o.flop), Value(hp, o.turn),
                  Value(hp, o.river))

\* conditional_copy as it would be if only a value that is not yet a list
\* were copied
CondCopy_ReuseList(hp, ref) ==
    IF ref = 0 THEN [heap |-> hp, ref |-> 0]
    ELSE IF hp[ref].kind = "list" THEN [heap |-> hp, ref |-> ref]
    ELSE [heap |-> Append(hp, List(hp[ref].seq)), ref |-> Len(hp) + 1]

\* conditional_copy(l): list(l) is a new list object
CondCopy(hp, ref) ==
    IF ref = 0 THEN [heap |-> hp, ref |-> 0]
    ELSE [heap |-> Append(hp, List(hp[ref].seq)), ref |-> Len(hp) + 1]

\* x += action, after `if x is None: x = ()': a list is extended in place,
\* a tuple is replaced by a new tuple
PlusAssign(hp, ref, action) ==
    IF ref = 0 THEN [heap |-> Append(hp, Tuple(<<action>>)), ref |-> Len(hp) + 1]
    ELSE IF hp[ref].kind = "list"
        THEN [heap |-> [hp EXCEPT ![ref].seq = Append(@, action)], ref |-> ref]
    ELSE [heap |-> Append(hp, Tuple(Append(hp[ref].seq, action))), ref |-> Len(hp) + 1]

\* ActionHistory.__add__ on objects: [heap, obj], the heap after the call
\* and the history object returned
AddObject(hp, o, action) ==
    LET preflop == CondCopy(hp, o.preflop)
        flop == CondCopy(preflop.heap, o.flop)
        turn == CondCopy(flop.heap, o.turn)
        river == CondCopy(turn.heap, o.river)
        s == street(Deref(hp, o))
        x == IF s = "preflop" THEN PlusAssign(river.heap, preflop.ref, action)
             ELSE IF s = "flop" THEN PlusAssign(river.heap, flop.ref, action)
             ELSE IF s = "turn" THEN PlusAssign(river.heap, turn.ref, action)
             ELSE IF s = "river" THEN PlusAssign(river.heap, river.ref, action)
             ELSE [heap |-> river.heap, ref |-> 0]
    IN  [heap |-> x.heap,
         obj |-> [preflop |-> IF s = "preflop" THEN x.ref ELSE preflop.ref,
                  flop |-> IF s = "flop" THEN x.ref ELSE flop.ref,
                  turn |-> IF s = "turn" THEN x.ref ELSE turn.ref,
                  river |-> IF s = "river" THEN x.ref ELSE river.ref]]

\* a tuple object with the tokens of the object ref refers to
TupleOf(hp, ref) ==
    IF ref = 0 THEN [heap |-> hp, ref |-> 0]
    ELSE [heap |-> Append(hp, Tuple(hp[ref].seq)), ref |-> Len(hp) + 1]

\* ActionHistory(preflop, flop, turn, river) called with tuples of the
\* tokens of o, None for a street o does not have
FromTuples(hp, o) ==
    LET preflop == TupleOf(hp, o.preflop)
        flop == TupleOf(preflop.heap, o.flop)
        turn == TupleOf(flop.heap, o.turn)
        river == TupleOf(turn.heap, o.river)
    IN  [heap |-> river.heap,
         obj |-> [preflop |-> preflop.ref, flop |-> flop.ref, turn |-> turn.ref,
                  river |-> river.ref]]

Made(obj, src, action) ==
    [preflop |-> obj.preflop, flop |-> obj.flop, turn |-> obj.turn,
     river |-> obj.river, src |-> src, action |-> action]

\* ActionHistory(preflop=()), the history a hand starts with
BranchInit ==
    /\ heap = <<Tuple(<<>>)>>
    /\ hists = <<Made([preflop |-> 1, flop |-> 0, turn |-> 0, river |-> 0], 0, "")>>
    /\ history = EmptyHistory
    /\ NodeIdle
    /\ CanonIdle
    /\ DeckIdle
    /\ GameIdle

\* hists[i] + action, for any history made so far
Extend(i, action) ==
    /\ Len(hists) < MaxHists
    /\ LET r == AddObject(heap, hists[i], action) IN
        /\ heap' = r.heap
        /\ hists' = Append(hists, Made(r.obj, i, action))
    /\ UNCHANGED <<history, nodeVars, canonVars, deckVars, game>>

\* the constructor called with the tokens of hists[i] as tuples
Construct(i) ==
    /\ Len(hists) < MaxHists
    /\ LET r == FromTuples(heap, hists[i]) IN
        /\ heap' = r.heap
        /\ hists' = Append(hists, Made(r.obj, 0, ""))
    /\ UNCHANGED <<history, nodeVars, canonVars, deckVars, game>>

BranchNext ==
    \E i \in 1..Len(hists) :
        \/ \E action \in BranchTokens : Extend(i, action)
        \/ Construct(i)

BranchSpec == BranchInit /\ [][BranchNext]_vars

----------------------------------------------------------------------------
(* The suit canonicalizers of texas_utils.py.  A card is the two-character *)
(* string rank + suit, modelled as [rank, suit]; sorted() orders strings   *)
(* by the character codes of the rank and then of the suit.                *)

\* the suits, in the order of the constant SUITS
SUITS == <<"c", "d", "h", "s">>

\* the ranks, in the order of the keys of RANKS
RANKS == <<"A", "K", "Q", "J", "T", "9", "8", "7", "6", "5", "4", "3", "2">>

\* ord(ch) of the characters cards are written with
Ord(ch) ==
    CASE ch = "2" -> 50 [] ch = "3" -> 51 [] ch = "4" -> 52 [] ch = "5" -> 53
      [] ch = "6" -> 54 [] ch = "7" -> 55 [] ch = "8" -> 56 [] ch = "9" -> 57
      [] ch = "A" -> 65 [] ch = "J" -> 74 [] ch = "K" -> 75 [] ch = "Q" -> 81
      [] ch = "T" -> 84
      [] ch = "c" -> 99 [] ch = "d" -> 100 [] ch = "h" -> 104 [] ch = "s" -> 115

Card(r, s) == [rank |-> r, suit |-> s]
rank(card) == card.rank
suit(card) == card.suit

\* card1 < card2 as strings
CardLess(card1, card2) ==
    \/ Ord(rank(card1)) < Ord(rank(card2))
    \/ rank(card1) = rank(card2) /\ Ord(suit(card1)) < Ord(suit(card2))

\* the position of card among the cards of s in sorted order
SortedPos(s, i) ==
    1 + Cardinality({j \in 1..Len(s) :
            CardLess(s[j], s[i]) \/ (s[j] = s[i] /\ j < i)})

\* sorted(s)
Sorted(s) ==
    [k \in 1..Len(s) |-> s[CHOOSE i \in 1..Len(s) : SortedPos(s, i) = k]]

Min(a, b) == IF a < b THEN a ELSE b

\* hand[:2] and hand[2:]
Hole(cards) == SubSeq(cards, 1, Min(2, Len(cards)))
Board(cards) == SubSeq(cards, 3, Len(cards))

\* the labels handed out, in the order they are popped
LABELS == <<"s", "h", "d", "c">>

\* the loop of archetypal_hand from index i on: st is [hand, suits,
\* suit_mapping], suit_mapping a function from the suits met so far
RECURSIVE ArchetypalLoop(_, _)
ArchetypalLoop(st, i) ==
    IF i > Len(st.hand) THEN st
    ELSE LET card == st.hand[i] IN
         IF suit(card) \in DOMAIN st.suit_mapping
         THEN ArchetypalLoop(
                [st EXCEPT !.hand[i] = Card(rank(card), st.suit_mapping[suit(card)])],
                i + 1)
         ELSE LET label == Head(st.suits) IN
              ArchetypalLoop(
                [hand |-> [st.hand EXCEPT ![i] = Card(rank(card), label)],
                 suits |-> Tail(st.suits),
                 suit_mapping |-> st.suit_mapping @@ (suit(card) :> label)],
                i + 1)

\* archetypal_hand as it would be if the relabeled hand were sorted as a
\* whole
archetypal_hand_SortsAll(cards) ==
    LET start == Sorted(Hole(cards)) \o Sorted(Board(cards))
        done == ArchetypalLoop([hand |-> start, suits |-> LABELS,
                                suit_mapping |-> <<>>], 1).hand
    IN  [err |-> "", val |-> Sorted(done)]

\* archetypal_hand(hand): [err, val]
archetypal_hand(cards) ==
    LET start == Sorted(Hole(cards)) \o Sorted(Board(cards))
        done == ArchetypalLoop([hand |-> start, suits |-> LABELS,
                                suit_mapping |-> <<>>], 1).hand
    IN  [err |-> "", val |-> Sorted(Hole(done)) \o Sorted(Board(done))]

\* the loop `for s in non_iso' of make_isomorphic_suits from index i on:
\* st is [remaining, mapping]
RECURSIVE MappingLoop(_, _, _)
MappingLoop(st, non_iso, i) ==
    IF i > Len(non_iso) THEN st
    ELSE IF non_iso[i] \in DOMAIN st.mapping THEN MappingLoop(st, non_iso, i + 1)
    ELSE MappingLoop([remaining |-> Tail(st.remaining),
                      mapping |-> st.mapping @@ (non_iso[i] :> Head(st.remaining))],
                     non_iso, i + 1)

\* make_isomorphic_suits(): the table over product(suits, suits, suits,
\* suits, suits)
make_isomorphic_suits ==
    [non_iso \in [1..5 -> Range(LABELS)] |->
        LET mapping == MappingLoop([remaining |-> LABELS, mapping |-> <<>>],
                                   non_iso, 1).mapping
        IN  [k \in 1..5 |-> mapping[non_iso[k]]]]

\* isomorphic_hand as it would be if it took the labels out of the list
\* the table holds for the suit tuple
isomorphic_hand_Consumes(cards) ==
    LET sorted == Sorted(cards)
        suits == [i \in 1..Len(sorted) |-> suit(sorted[i])]
    IN  IF suits \notin DOMAIN isomorphic_suits
        THEN [err |-> "KeyError", val |-> <<>>, table |-> isomorphic_suits]
        ELSE LET iso_suits == isomorphic_suits[suits]
                 result == [i \in 1..Len(sorted) |->
                                Card(rank(sorted[i]), iso_suits[i])]
             IN  [err |-> "", val |-> Sorted(result),
                  table |-> [isomorphic_suits EXCEPT ![suits] = <<>>]]

\* isomorphic_hand(hand): [err, val, table], table being isomorphic_suits
\* as the call leaves it: the entry is only indexed.  A suit tuple that is
\* no key of the table raises KeyError
isomorphic_hand(cards) ==
    LET sorted == Sorted(cards)
        suits == [i \in 1..Len(sorted) |-> suit(sorted[i])]
    IN  IF suits \notin DOMAIN isomorphic_suits
        THEN [err |-> "KeyError", val |-> <<>>, table |-> isomorphic_suits]
        ELSE LET iso_suits == isomorphic_suits[suits]
                 result == [i \in 1..Len(sorted) |->
                                Card(rank(sorted[i]), iso_suits[i])]
             IN  [err |-> "", val |-> Sorted(result), table |-> isomorphic_suits]

\* the isomorphic_hand that is commented out: the labels are worked out by
\* the loop on every call
greedy_isomorphic_hand(cards) ==
    LET start == Sorted(cards)
        done == ArchetypalLoop([hand |-> start, suits |-> LABELS,
                                suit_mapping |-> <<>>], 1).hand
    IN  [err |-> "", val |-> Sorted(done)]

\* the number of ranks of the deck hands are dealt from
NumRanks == 2

\* get_deck() over the first NumRanks ranks
Deck == {Card(RANKS[i], s) : i \in 1..NumRanks, s \in Range(SUITS)}

\* the cards of a set as a sequence, in ascending or descending order
Arrange(cards, order) ==
    LET asc == Sorted(CHOOSE s \in [1..Cardinality(cards) -> cards] : Range(s) = cards)
    IN  IF order = "ascending" THEN asc
        ELSE [k \in 1..Len(asc) |-> asc[Len(asc) + 1 - k]]

\* two hole cards followed by a flop, all distinct
Hands ==
    {Arrange(hole, o1) \o Arrange(flop, o2) :
        hole \in {h \in SUBSET Deck : Cardinality(h) = 2},
        flop \in {f \in SUBSET Deck : Cardinality(f) = 3},
        o1 \in {"ascending", "descending"}, o2 \in {"ascending", "descending"}}

CanonInit ==
    /\ hand \in {h \in Hands : Cardinality(Range(h)) = Len(h)}
    /\ canon = [fn |-> "init", err |-> "", val |-> <<>>]
    /\ isomorphic_suits = make_isomorphic_suits
    /\ history = EmptyHistory
    /\ NodeIdle
    /\ ObjectsIdle
    /\ DeckIdle
    /\ GameIdle

Returned(fn, r) == [fn |-> fn, err |-> r.err, val |-> r.val]

\* archetypal_hand(hand)
ArchetypalHand ==
    /\ canon.fn = "init"
    /\ canon' = Returned("archetypal_hand", archetypal_hand(hand))
    /\ UNCHANGED <<hand, isomorphic_suits, history, nodeVars, objectVars, deckVars, game>>

\* isomorphic_hand(hand)
IsomorphicHand ==
    /\ canon.fn = "init"
    /\ canon' = Returned("isomorphic_hand", isomorphic_hand(hand))
    /\ isomorphic_suits' = isomorphic_hand(hand).table
    /\ UNCHANGED <<hand, history, nodeVars, objectVars, deckVars, game>>

\* the hand returned is canonicalized again by the same function
Again ==
    /\ canon.fn # "init"
    /\ canon.err = ""
    /\ hand' = canon.val
    /\ canon' = IF canon.fn = "archetypal_hand"
                THEN Returned("archetypal_hand", archetypal_hand(canon.val))
                ELSE Returned("isomorphic_hand", isomorphic_hand(canon.val))
    /\ isomorphic_suits' = IF canon.fn = "archetypal_hand" THEN isomorphic_suits
                           ELSE isomorphic_hand(canon.val).table
    /\ UNCHANGED <<history, nodeVars, objectVars, deckVars, game>>

CanonNext == ArchetypalHand \/ IsomorphicHand \/ Again

CanonSpec == CanonInit /\ [][CanonNext]_vars

----------------------------------------------------------------------------
(* InfoSet: the key made of a card bucket and a history.  Cards of a deck  *)
(* are numbered; the abstraction tables are supplied from outside and are  *)
(* only known to map a hand to a small integer.                            *)

\* repr() of an action token
ReprToken(action) == "'" \o action \o "'"

\* the items of s from index i on, separated by ", "
RECURSIVE ReprItems(_, _)
ReprItems(s, i) ==
    IF i > Len(s) THEN ""
    ELSE IF i = Len(s) THEN ReprToken(s[i])
    ELSE ReprToken(s[i]) \o ", " \o ReprItems(s, i + 1)

\* str() of a street: None, a tuple or a list
ReprStreet(x) ==
    IF x = None THEN "None"
    ELSE IF x.kind = "list" THEN "[" \o ReprItems(x.seq, 1) \o "]"
    ELSE IF Len(x.seq) = 1 THEN "(" \o ReprItems(x.seq, 1) \o ",)"
    ELSE "(" \o ReprItems(x.seq, 1) \o ")"

\* ActionHistory.__str__
Str(h) ==
    "Preflop: " \o ReprStreet(h.preflop) \o ", Flop: " \o ReprStreet(h.flop)
        \o ", Turn: " \o ReprStreet(h.turn) \o ", River: " \o ReprStreet(h.river)

\* hash() of a string: an integer determined by the characters of the
\* string (here their number)
HashStr(s) == Len(s)

\* ActionHistory.__eq__ and ActionHistory.__hash__
HistoryEq(h1, h2) == Str(h1) = Str(h2)
HistoryHash(h) == HashStr(Str(h))

\* the number of bucket ids of an abstraction
NumBuckets == 3

\* PREFLOP_ABSTRACTION[cards], FLOP_ABSTRACTION[cards], ...: some bucket id
\* determined by the table and the cards
Abstraction(table, cards) == (Sum(cards) + Len(table)) % NumBuckets

\* deck[a:b]
Slice(d, a, b) == SubSeq(d, a + 1, Min(b, Len(d)))

\* draw_deck as it would be if it dealt every player the first two cards
draw_deck_FirstHole(d, player) ==
    [hole |-> Slice(d, 0, 2),
     flop |-> Slice(d, 4, 7), turn |-> Slice(d, 7, 8), river |-> Slice(d, 8, 9)]

\* draw_deck(deck, player): hole, flop, turn, river
draw_deck(d, player) ==
    [hole |-> IF player = 0 THEN Slice(d, 0, 2) ELSE Slice(d, 2, 4),
     flop |-> Slice(d, 4, 7), turn |-> Slice(d, 7, 8), river |-> Slice(d, 8, 9)]

\* InfoSet(deck, history): the object made, or err = "ValueError" for
\* 'Unknown street.'
InfoSet(d, h) ==
    LET s == street(h)
        player == whose_turn(h)
        drawn == draw_deck(d, player)
        cards == IF s = "preflop" THEN drawn.hole
                 ELSE IF s = "flop" THEN drawn.hole \o drawn.flop
                 ELSE IF s = "turn" THEN drawn.hole \o drawn.flop \o drawn.turn
                 ELSE drawn.hole \o drawn.flop \o drawn.turn \o drawn.river
    IN  IF s = "over"
        THEN [err |-> "ValueError", made |-> FALSE, history |-> h, card_bucket |-> 0,
              hand |-> <<>>]
        ELSE [err |-> "", made |-> TRUE, history |-> h,
              card_bucket |-> Abstraction(s, cards), hand |-> cards]

\* InfoSet.__eq__ and InfoSet.__hash__
InfoSetEq(i1, i2) ==
    i1.card_bucket = i2.card_bucket /\ HistoryEq(i1.history, i2.history)
InfoSetHash(i) == i.card_bucket + HistoryHash(i.history)

\* the number of cards of the deck
DeckSize == 10

\* the deck in its original order, and with the cards at i and j swapped
SortedDeck == [k \in 1..DeckSize |-> k]
Swapped(i, j) == [SortedDeck EXCEPT ![i] = j, ![j] = i]

\* the decks dealt from
Decks == {Swapped(i, j) : i, j \in 1..DeckSize}

\* the tokens applied while a hand is played out
DeckTokens == {"call", "check"}

DeckInit ==
    /\ deck \in Decks
    /\ infoset = NoInfoSet
    /\ history = EmptyHistory
    /\ NodeIdle
    /\ ObjectsIdle
    /\ CanonIdle
    /\ GameIdle

\* the information set of the history reached is made
Visit ==
    /\ infoset' = InfoSet(deck, history)
    /\ UNCHANGED <<deck, history, nodeVars, objectVars, canonVars, game>>

\* the hand goes on by one action
Act(action) ==
    /\ street(history) # "over"
    /\ history' = Add(history, action)
    /\ UNCHANGED <<deckVars, nodeVars, objectVars, canonVars, game>>

DeckNext == Visit \/ \E action \in DeckTokens : Act(action)

DeckSpec == DeckInit /\ [][DeckNext]_vars

----------------------------------------------------------------------------
\* Rhode Island Hold'em: Game.play() with its rounds of betting

BET_SIZES == <<10, 20, 20>>
INITIAL_STACK_SIZE == 1000
PREFLOP == 0
TURN == 2

notGame == <<history, regrets, weighted_strategy_sum, t, ret, played, supplied, calls,
             heap, hists, hand, canon, isomorphic_suits, deck, infoset>>

\* the actions input_action accepts; it asks again until it reads one of them
input_action_NoLimit(previous_bet, bet_limit_reached) ==
    IF previous_bet
    THEN <<"call", "fold", "raise">>
    ELSE <<"check", "bet">>

input_action(previous_bet, bet_limit_reached) ==
    IF previous_bet
    THEN <<"call", "fold">> \o (IF ~bet_limit_reached THEN <<"raise">> ELSE <<>>)
    ELSE <<"check", "bet">>

\* what the player to act is offered at the prompt the game waits at
Offered == Range(input_action(game.action, game.n_raises = 3))

\* the bet size of the street
bet_size == IF game.street = PREFLOP THEN BET_SIZES[1] ELSE BET_SIZES[2]

\* betting() is entered: its locals are set and the first prompt is shown;
\* inputs is a history variable, the actions read in this round
EnterBetting(g) ==
    [g EXCEPT !.pc = "input", !.betting_over = FALSE, !.action = FALSE,
              !.n_raises = 0, !.n_checks = 0, !.player = 0, !.inputs = <<>>]

\* advance_hand(): the turn is the last street
advance_hand(g) ==
    IF g.street = TURN THEN [g EXCEPT !.hand_is_over = TRUE] ELSE g

\* showdown(): the pot goes to the better hand, or is split
showdown(g, winner) ==
    IF winner \in {0, 1}
    THEN [g EXCEPT !.stacks[winner + 1] = @ + g.pot]
    ELSE [g EXCEPT !.stacks[1] = @ + g.pot \div 2, !.stacks[2] = @ + g.pot \div 2]

\* the rest of play() after betting() has returned: the next street and its
\* round of betting, or the end of the hand
AfterBetting(g, winner) ==
    LET next == [g EXCEPT !.street = @ + 1]
    IN  IF ~next.hand_is_over
        THEN EnterBetting(advance_hand(next))
        ELSE IF ~next.player_folded
             THEN [showdown(next, winner) EXCEPT !.pc = "done"]
             ELSE [next EXCEPT !.pc = "done"]

\* the end of one pass of the loop of betting()
EndOfPass(g, winner) ==
    LET over == g.betting_over \/ (~g.action /\ (g.n_checks = 2 \/ g.n_raises = 3))
        passed == [g EXCEPT !.betting_over = over, !.player = 1 - @]
    IN  IF over THEN AfterBetting(passed, winner) ELSE passed

\* Game() followed by play() up to the first prompt
GameStarted ==
    EnterBetting([pc |-> "input", street |-> PREFLOP, hand_is_over |-> FALSE,
                  player_folded |-> FALSE,
                  stacks |-> <<INITIAL_STACK_SIZE, INITIAL_STACK_SIZE>>, pot |-> 0,
                  betting_over |-> FALSE, action |-> FALSE, n_raises |-> 0,
                  n_checks |-> 0, player |-> 0, inputs |-> <<>>])

GameInit ==
    /\ game = GameStarted
    /\ history = EmptyHistory
    /\ NodeIdle
    /\ ObjectsIdle
    /\ CanonIdle
    /\ DeckIdle

\* an accepted input: the guard and the record of what was read
Accepted(player_action) ==
    /\ game.pc = "input"
    /\ player_action \in Offered
    /\ UNCHANGED notGame

Read(player_action) == [game EXCEPT !.inputs = Append(@, player_action)]

GameBet ==
    /\ Accepted("bet")
    /\ \E winner \in 0..2 :
         game' = EndOfPass([Read("bet") EXCEPT
                               !.pot = @ + bet_size,
                               !.stacks[game.player + 1] = @ - bet_size,
                               !.action = TRUE,
                               !.n_raises = @ + 1], winner)

GameCheck ==
    /\ Accepted("check")
    /\ \E winner \in 0..2 :
         game' = EndOfPass([Read("check") EXCEPT !.n_checks = @ + 1], winner)

GameCall ==
    /\ Accepted("call")
    /\ \E winner \in 0..2 :
         game' = EndOfPass([Read("call") EXCEPT
                               !.pot = @ + bet_size,
                               !.stacks[game.player + 1] = @ - bet_size,
                               !.action = FALSE,
                               !.betting_over = TRUE], winner)

\* betting() returns at once, the loop of play() ends
GameFold ==
    /\ Accepted("fold")
    /\ game' = AfterBetting([Read("fold") EXCEPT
                                !.hand_is_over = TRUE,
                                !.player_folded = TRUE,
                                !.stacks[(1 - game.player) + 1] = @ + game.pot], 2)

GameRaise ==
    /\ Accepted("raise")
    /\ \E winner \in 0..2 :
         game' = EndOfPass([Read("raise") EXCEPT
                               !.pot = @ + 2 * bet_size,
                               !.stacks[game.player + 1] = @ - 2 * bet_size,
                               !.n_raises = @ + 1], winner)

GameNext == GameBet \/ GameCheck \/ GameCall \/ GameFold \/ GameRaise

GameSpec == GameInit /\ [][GameNext]_vars

----------------------------------------------------------------------------
(* Properties of the betting history                                       *)

\* the replay never halves an odd pot, so chip amounts stay integers
HalfPotExact ==
    /\ ~pot_size(history).frac
    /\ \A a \in LegalNow(history) : ~pot_size(Add(history, a)).frac

\* C1: for every history built from the empty preflop history by applying
\* actions taken from legal_actions(), the replay of pot_size() does not
\* fail with 'bets exceed stack size' (nor otherwise) and both remaining
\* stacks are >= 0, on every street.
C1_StacksNeverNegative ==
    LET r == pot_size(history) IN
    /\ r.err = ""
    /\ r.stack_sizes[1] >= 0
    /\ r.stack_sizes[2] >= 0

\* C1's case: a river history at which the stack filter has removed the
\* half_pot and pot bets, after both players bet on the earlier streets
C1_Witness ==
    /\ street(history) = "river"
    /\ legal_actions(history).val = <<"check", "all-in">>
    /\ pot_size(history).err = ""
    /\ pot_size(history).stack_sizes[1] > 0

\* the candidate table as the specification states it, keyed by the street
\* and the previous action of the current street
ClaimedCandidates(s, prev) ==
    IF s = "preflop"
    THEN CASE prev = "None" -> <<"fold", "limp", "raise">>
           [] prev = "limp" -> <<"fold", "call", "raise">>
           [] prev = "raise" -> <<"fold", "call", "3-bet">>
           [] prev = "3-bet" -> <<"fold", "call", "4-bet", "all-in">>
           [] prev = "4-bet" -> <<"fold", "call", "all-in">>
           [] prev = "all-in" -> <<"fold", "call">>
           [] OTHER -> <<"undefined">>
    ELSE CASE prev \in {"None", "check"} -> <<"check", "half_pot", "pot", "all-in">>
           [] prev \in {"half_pot", "pot", "min_raise"} ->
                <<"fold", "call", "min_raise", "all-in">>
           [] prev = "all-in" -> <<"fold", "call">>
           [] OTHER -> <<"undefined">>

\* whether the replay of h drives a stack below zero
DrivesNegative(h) ==
    \/ pot_size(h).stack_sizes[1] < 0
    \/ pot_size(h).stack_sizes[2] < 0

\* C2: for every history reached by legal play whose hand is not over,
\* legal_actions() returns the candidates of the (street, previous action)
\* table minus exactly those whose application drives a stack negative, in
\* table order; () gives (fold, limp, raise) and (limp, raise) gives
\* (fold, call, 3-bet).
C2_LegalActionsTable ==
    /\ ~hand_over(history) =>
         legal_actions(history) =
            [err |-> "",
             val |-> SelectSeq(ClaimedCandidates(street(history), last_action(history)),
                               LAMBDA a : ~DrivesNegative(Add(history, a)))]
    /\ history = EmptyHistory =>
         legal_actions(history).val = <<"fold", "limp", "raise">>
    /\ (history.preflop.seq = <<"limp", "raise">> /\ history.flop = None) =>
         legal_actions(history).val = <<"fold", "call", "3-bet">>

\* C2's case: facing a bet, the filter removes min_raise and keeps the rest
C2_Witness ==
    /\ ~hand_over(history)
    /\ last_action(history) \in {"half_pot", "pot", "min_raise"}
    /\ legal_actions(history) = [err |-> "", val |-> <<"fold", "call", "all-in">>]

NextStreet(s) ==
    CASE s = "preflop" -> "flop"
      [] s = "flop" -> "turn"
      [] s = "turn" -> "river"
      [] s = "river" -> "over"
      [] OTHER -> "over"

\* the tokens recorded for street s of h
StreetSeq(h, s) ==
    CASE s = "preflop" -> h.preflop.seq
      [] s = "flop" -> h.flop.seq
      [] s = "turn" -> h.turn.seq
      [] s = "river" -> h.river.seq
      [] OTHER -> <<>>

EndsInCallOrTwoChecks(seq) ==
    \/ (Len(seq) >= 1 /\ seq[Len(seq)] = "call")
    \/ (Len(seq) >= 2 /\ seq[Len(seq)] = "check" /\ seq[Len(seq) - 1] = "check")

\* C3: street() moves only forward through preflop, flop, turn, river, over,
\* one step at a time: applying an action advances the street by exactly
\* one when, after the append, the sequence of the street the action went
\* to ends in call or in two consecutive checks, and leaves the street
\* unchanged otherwise (and over stays over).
C3_StreetStep ==
    [][LET s == street(history) IN
       street(history') =
          IF s = "over" THEN "over"
          ELSE IF EndsInCallOrTwoChecks(StreetSeq(history', s)) THEN NextStreet(s)
          ELSE s]_vars

\* C3's case: every street was passed, the river closed by two checks
C3_Witness ==
    /\ street(history) = "over"
    /\ history.river.seq = <<"check", "check">>
    /\ Len(history.preflop.seq) = 1

----------------------------------------------------------------------------
(* Properties of the regret node                                           *)

\* a mapping over exactly the action set A, non-negative and summing to 1
IsDistribution(f, A) ==
    /\ DOMAIN f = A
    /\ \A a \in A : RNonNeg(f[a])
    /\ RSum(f, A) = One

Uniform(A) == [a \in A |-> Rat(1, Cardinality(A))]

Max0(n) == IF n < 0 THEN 0 ELSE n

\* C4: after any sequence of add_regret calls (values of either sign) and
\* current_strategy(p) calls with p >= 0, current_strategy and
\* cumulative_strategy return a mapping over exactly the node's legal
\* actions, with values >= 0 that sum to 1.
C4_ReturnsDistribution ==
    ret.op \in {"current_strategy", "cumulative_strategy"} =>
        /\ ret.err = ""
        /\ IsDistribution(ret.result, Range(NodeActions))

\* C5: when the total regret is non-zero and no action has positive regret,
\* current_strategy returns the uniform distribution.
C5_UniformWhenNoPositiveRegret ==
    ( /\ ret.op = "current_strategy"
      /\ ISum(regrets, DOMAIN regrets) # 0
      /\ \A a \in DOMAIN regrets : regrets[a] <= 0 ) =>
        /\ ret.err = ""
        /\ ret.result = Uniform(Range(NodeActions))

\* C6: current_strategy is regret matching: when the regrets sum to exactly
\* zero (a fresh node, or non-zero regrets that cancel) it returns 1/|A| for
\* every legal action; otherwise, when at least one regret is positive, it
\* returns max(regret[a], 0) / sum_b max(regret[b], 0) for each action a.
C6_RegretMatching ==
    ret.op = "current_strategy" =>
        LET A == Range(NodeActions)
            total == ISum(regrets, A)
            positive == ISum([a \in A |-> Max0(regrets[a])], A)
        IN  /\ total = 0 => ret.err = "" /\ ret.result = Uniform(A)
            /\ (total # 0 /\ \E a \in A : regrets[a] > 0) =>
                  /\ ret.err = ""
                  /\ ret.result = [a \in A |-> Rat(Max0(regrets[a]), positive)]

\* C6's case: current_strategy has returned on a node whose non-zero
\* regrets cancel
C6_Witness ==
    /\ ret.op = "current_strategy"
    /\ ret.err = ""
    /\ ISum(regrets, DOMAIN regrets) = 0
    /\ \E a \in DOMAIN regrets : regrets[a] > 0

\* the reach-weighted time average of the strategies current_strategy has
\* returned so far
TimeAverage ==
    LET A == Range(NodeActions)
        total == RSum(played, A)
    IN  IF total = Zero THEN Uniform(A) ELSE [a \in A |-> RDiv(played[a], total)]

\* C7: after any interleaving of current_strategy, add_regret and
\* cumulative_strategy calls, cumulative_strategy returns the reach-weighted
\* time average of the strategies the current_strategy calls returned
\* (uniform when the weights sum to zero), however often
\* cumulative_strategy was called in between.
C7_CumulativeIsTimeAverage ==
    regrets # <<>> =>
        cumulative_strategy(weighted_strategy_sum, NodeActions).result = TimeAverage

C9_AddRegretFrame ==
    /\ [][(calls' # calls /\ ret'.op = "add_regret" /\ ret'.err = "") =>
            /\ regrets' = [regrets EXCEPT ![ret'.action] = @ + ret'.value]
            /\ weighted_strategy_sum' = weighted_strategy_sum
            /\ t' = t]_vars
    /\ [](regrets = supplied)

\* C9's case: add_regret has driven a regret below zero
C9_Witness ==
    /\ ret.op = "add_regret"
    /\ ret.err = ""
    /\ ret.value < 0
    /\ regrets[ret.action] < 0

\* C10: the key sets of the regret map and of the strategy-sum map are the
\* information set's legal actions from construction on, under every call;
\* add_regret with an action outside that set fails and leaves the node
\* state unchanged.
C10_FixedActionSet ==
    /\ [](regrets # <<>> =>
            /\ DOMAIN regrets = Range(NodeActions)
            /\ DOMAIN weighted_strategy_sum = Range(NodeActions))
    /\ [][(calls' # calls /\ ret'.op = "add_regret"
                          /\ ret'.action \notin Range(NodeActions)) =>
            /\ ret'.err = "KeyError"
            /\ nodeState' = nodeState]_vars

\* C10's case: add_regret was called with an action that is no key, after
\* the node was visited
C10_Witness ==
    /\ ret.op = "add_regret"
    /\ ret.err = "KeyError"
    /\ ret.action \notin DOMAIN regrets
    /\ t >= 1

----------------------------------------------------------------------------
(* Properties of the history: end of hand, turn order, street presence     *)

\* the four street sequences of h, an absent street read as empty
AllTokens(h) == h.preflop.seq \o h.flop.seq \o h.turn.seq \o h.river.seq

\* the action applied last, on whatever street ("None" before any action)
MostRecentAction(h) ==
    IF AllTokens(h) = <<>> THEN "None" ELSE Last(AllTokens(h))

\* C12: for every history built by apply from the empty preflop history,
\* hand_over() is true if and only if street() is 'over' or the most
\* recently applied action, on any street, is a fold.
C12_HandOverIff ==
    hand_over(history) <=>
        (street(history) = "over" \/ MostRecentAction(history) = "fold")

\* C12's case: the hand was ended by a fold on the turn, after two streets
\* were closed
C12_Witness ==
    /\ hand_over(history)
    /\ street(history) = "turn"
    /\ history.turn # None
    /\ MostRecentAction(history) = "fold"

\* C13: whose_turn() is 0 at the start of every street (and when the street
\* has no sequence yet) and is the number of actions recorded in the
\* active street modulo 2, so the player to act alternates with each
\* action applied within a street; the replay in pot_size debits each
\* action to that same player: what the action adds to the pot is taken
\* from the stack of the player whose turn it was, and the other stack is
\* left as it was.
C13_TurnOrder ==
    /\ [](whose_turn(history) = Len(StreetSeq(history, street(history))) % 2)
    /\ [][LET p == whose_turn(history) + 1
              o == (1 - whose_turn(history)) + 1
          IN  /\ whose_turn(history') =
                    IF street(history') = street(history)
                    THEN 1 - whose_turn(history) ELSE 0
              /\ stack_sizes(history')[o] = stack_sizes(history)[o]
              /\ stack_sizes(history)[p] - stack_sizes(history')[p]
                    = pot_size(history').pot - pot_size(history).pot]_vars

\* C13's case: player 1 closed the preflop street, and player 0, first to
\* act on the flop, has paid a bet there
C13_Witness ==
    /\ Len(history.preflop.seq) = 3
    /\ history.flop # None
    /\ history.flop.seq = <<"half_pot">>
    /\ whose_turn(history) = 1
    /\ stack_sizes(history)[1] < stack_sizes(history)[2]

\* C14: in every history built by apply from the empty preflop history a
\* street's sequence is present only if the street before it is over: flop
\* only if the preflop sequence is over, turn only if the flop sequence is
\* over, river only if the turn sequence is over; and a street that has
\* just been reached stays absent until its first action is applied, so a
\* present sequence of a later street is never empty.
C14_LaterStreetsPresence ==
    /\ history.flop # None =>
            EndsInCallOrTwoChecks(history.preflop.seq) /\ Len(history.flop.seq) >= 1
    /\ history.turn # None =>
            /\ history.flop # None
            /\ EndsInCallOrTwoChecks(history.flop.seq) /\ Len(history.turn.seq) >= 1
    /\ history.river # None =>
            /\ history.turn # None
            /\ EndsInCallOrTwoChecks(history.turn.seq) /\ Len(history.river.seq) >= 1

\* C14's case: the turn has just been reached and is still absent, the flop
\* having been closed by a call
C14_Witness ==
    /\ street(history) = "turn"
    /\ history.turn = None
    /\ history.flop # None
    /\ Last(history.flop.seq) = "call"

----------------------------------------------------------------------------
(* Properties of history objects                                           *)

\* the street attributes of a history object that refer to a list
ListRefs(hp, o) ==
    {r \in {o.preflop, o.flop, o.turn, o.river} : r # 0 /\ hp[r].kind = "list"}

\* C11: h + a returns a new history and leaves h unchanged: the four
\* street sequences of every history made so far (and with them its pot,
\* stacks, street, whose_turn and legal_actions) are the same before and
\* after, also for a history that was extended along another branch
\* before; the sequences of the new history are those of h with a
\* appended to the current street only, and it shares no list with an
\* earlier history.
C11_AddLeavesOperand ==
    [][(Len(hists') = Len(hists) + 1 /\ hists'[Len(hists')].src # 0) =>
        LET new == hists'[Len(hists')]
            h == Deref(heap, hists[new.src])
            n == Deref(heap', new)
            s == street(h)
        IN  /\ \A j \in 1..Len(hists) :
                    /\ hists'[j] = hists[j]
                    /\ Deref(heap', hists'[j]) = Deref(heap, hists[j])
                    /\ ListRefs(heap', new) \cap ListRefs(heap', hists'[j]) = {}
            /\ \A x \in {"preflop", "flop", "turn", "river"} :
                    StreetSeq(n, x) = IF x = s THEN Append(StreetSeq(h, x), new.action)
                                      ELSE StreetSeq(h, x)
            /\ n = Add(h, new.action)]_vars

\* C11's case: a history that was itself made by + (its streets are lists)
\* has been extended along two branches
C11_Witness ==
    \E j, k \in 1..Len(hists) :
        /\ j < k
        /\ hists[j].src # 0
        /\ hists[j].src = hists[k].src
        /\ hists[j].action # hists[k].action
        /\ hists[hists[j].src].src # 0

----------------------------------------------------------------------------
(* Properties of the canonicalizers                                        *)

\* the 24 permutations of the four suits
SuitPermutations ==
    {pi \in [Range(SUITS) -> Range(SUITS)] :
        \A a, b \in Range(SUITS) : pi[a] = pi[b] => a = b}

\* the hand with every suit s replaced by pi[s]
Relabel(pi, h) == [i \in 1..Len(h) |-> Card(rank(h[i]), pi[suit(h[i])])]

\* C15: the split canonicalization is invariant under suit relabeling: for
\* every hand H of distinct cards (2 hole cards followed by board cards)
\* and each of the 24 permutations pi of the four suits,
\* archetypal_hand(pi(H)) = archetypal_hand(H), hands in which two cards
\* of the same segment share a rank included.
C15_ArchetypalInvariant ==
    canon.fn = "archetypal_hand" =>
        \A pi \in SuitPermutations :
            archetypal_hand(Relabel(pi, hand)).val = canon.val

\* C16: the flat canonicalization is invariant under suit relabeling: for
\* every 5-card hand H of distinct cards and every permutation pi of the
\* four suits, isomorphic_hand(pi(H)) = isomorphic_hand(H), hands with two
\* or more cards of the same rank included.
C16_IsomorphicInvariant ==
    canon.fn = "isomorphic_hand" =>
        \A pi \in SuitPermutations :
            isomorphic_hand(Relabel(pi, hand)).val = canon.val

\* C17: canonicalization is idempotent under both policies: canonicalizing
\* the hand a canonicalizer returned returns that same hand.
C17_Idempotent ==
    [][(canon.fn # "init" /\ canon'.fn = canon.fn) => canon'.val = canon.val]_vars

\* the suits occurring in a hand
SuitsOf(h) == {suit(h[i]) : i \in 1..Len(h)}

\* the cards of h with every suit s replaced by m[s]
Relabeled(m, h) == {Card(rank(h[i]), m[suit(h[i])]) : i \in 1..Len(h)}

\* C18: the canonical hand is isomorphic to the input: there is an injective
\* map m from the suits occurring in H to canonical suits such that the
\* output consists exactly of the cards rank(c) + m(suit(c)) for c in H, so
\* ranks are unchanged and two cards share a suit in the output iff they
\* share one in the input; the labels used are the first of s, h, d, c, one
\* per suit of H; and for archetypal_hand the first two output cards are
\* the relabeled hole cards and the rest the relabeled board cards.
C18_CanonicalIsIsomorphic ==
    (canon.fn # "init" /\ canon.err = "") =>
        \E m \in [SuitsOf(hand) -> Range(LABELS)] :
            /\ \A a, b \in SuitsOf(hand) : m[a] = m[b] => a = b
            /\ {m[s] : s \in SuitsOf(hand)}
                    = {LABELS[i] : i \in 1..Cardinality(SuitsOf(hand))}
            /\ Len(canon.val) = Len(hand)
            /\ Range(canon.val) = Relabeled(m, hand)
            /\ canon.fn = "archetypal_hand" =>
                    /\ Range(Hole(canon.val)) = Relabeled(m, Hole(hand))
                    /\ Range(Board(canon.val)) = Relabeled(m, Board(hand))

\* C18's case: archetypal_hand has relabeled a hand of three suits, one of
\* them on a hole card and on a board card, whose lowest card is on the
\* board
C18_Witness ==
    /\ canon.fn = "archetypal_hand"
    /\ Cardinality(SuitsOf(hand)) = 3
    /\ \E i \in 1..2, j \in 3..Len(hand) : suit(hand[i]) = suit(hand[j])
    /\ \E j \in 3..Len(hand) : \A i \in 1..2 : CardLess(hand[j], hand[i])
    /\ canon.val # hand

----------------------------------------------------------------------------
(* Properties of information sets                                          *)

\* the decks an information set is compared over
SampleDecks == {SortedDeck, Swapped(1, 2), Swapped(1, 3)}

\* C19: two information sets compare equal if and only if their card
\* buckets are equal and their histories have identical token sequences on
\* all four streets, however each history was produced (by the constructor
\* from tuples of tokens, or by applying actions one at a time); and equal
\* information sets have equal hashes.
C19_InfoSetEquality ==
    \A i, j \in 1..Len(hists) : \A d1, d2 \in SampleDecks :
        LET i1 == InfoSet(d1, Deref(heap, hists[i]))
            i2 == InfoSet(d2, Deref(heap, hists[j]))
        IN  (i1.made /\ i2.made) =>
                /\ InfoSetEq(i1, i2) <=>
                        /\ i1.card_bucket = i2.card_bucket
                        /\ \A x \in {"preflop", "flop", "turn", "river"} :
                                StreetSeq(i1.history, x) = StreetSeq(i2.history, x)
                /\ InfoSetEq(i1, i2) => InfoSetHash(i1) = InfoSetHash(i2)

\* the positions of the deck the player to act at street s can see
Visible(player, s) ==
    (IF player = 0 THEN {1, 2} ELSE {3, 4})
        \cup (IF s = "preflop" THEN {}
              ELSE IF s = "flop" THEN 5..7
              ELSE IF s = "turn" THEN 5..8
              ELSE 5..9)

\* C20: the hand of an information set depends only on the hole cards of
\* the player to act and the board revealed by the current street: it is
\* deck[0:2] for player 0 and deck[2:4] for player 1 (player = whose_turn()
\* of the history), followed by deck[4:7] from the flop on, deck[7] from
\* the turn on and deck[8] on the river; a deck that agrees with this one
\* on those cards gives the same hand.
C20_HandIsOwnCardsAndBoard ==
    infoset.made =>
        LET h == infoset.history
            player == whose_turn(h)
            s == street(h)
            hole == IF player = 0 THEN <<deck[1], deck[2]>> ELSE <<deck[3], deck[4]>>
            board == IF s = "preflop" THEN <<>>
                     ELSE IF s = "flop" THEN <<deck[5], deck[6], deck[7]>>
                     ELSE IF s = "turn" THEN <<deck[5], deck[6], deck[7], deck[8]>>
                     ELSE <<deck[5], deck[6], deck[7], deck[8], deck[9]>>
        IN  /\ infoset.hand = hole \o board
            /\ \A d \in Decks :
                    (\A k \in Visible(player, s) : d[k] = deck[k]) =>
                        InfoSet(d, h).hand = infoset.hand

\* C20's case: an information set of player 1 on the turn, made from a deck
\* in which a hole card of player 0 and the river card have changed places
C20_Witness ==
    /\ infoset.made
    /\ street(infoset.history) = "turn"
    /\ whose_turn(infoset.history) = 1
    /\ deck = Swapped(1, 9)
    /\ infoset.hand = <<3, 4, 5, 6, 7, 8>>

----------------------------------------------------------------------------
(* Properties of the chip accounting                                       *)

\* the sequence of the last street that has one
LastStreetSeq(h) ==
    IF h.river # None THEN h.river.seq
    ELSE IF h.turn # None THEN h.turn.seq
    ELSE IF h.flop # None THEN h.flop.seq
    ELSE h.preflop.seq

\* h as it was when its last postflop street began
StreetStart(h) ==
    IF h.river # None THEN [h EXCEPT !.river = None]
    ELSE IF h.turn # None THEN [h EXCEPT !.turn = None]
    ELSE [h EXCEPT !.flop = None]

\* what player (1 or 2) has put into the pot
Contribution(h, player) == STACK_SIZE - stack_sizes(h)[player]

\* C21: in every legally reached history a call pays exactly the
\* difference between the opponent's and the caller's total contributions,
\* so whenever a street is closed (by a call or by two checks) both players
\* have contributed the same total and hold equal stacks; after
\* (half_pot, call) on a street that started with pot P, pot_size() is
\* P + 2 * (P / 2), P being even.
C21_CallEvensContributions ==
    /\ [](EndsInCallOrTwoChecks(LastStreetSeq(history)) =>
            /\ Contribution(history, 1) = Contribution(history, 2)
            /\ stack_sizes(history)[1] = stack_sizes(history)[2])
    /\ []((history.flop # None /\ LastStreetSeq(history) = <<"half_pot", "call">>) =>
            LET P == pot_size(StreetStart(history)).pot IN
            /\ P % 2 = 0
            /\ pot_size(history).pot = P + 2 * (P \div 2))
    /\ [][AllTokens(history') = Append(AllTokens(history), "call") =>
            LET p == whose_turn(history) + 1
                o == (1 - whose_turn(history)) + 1
            IN  Contribution(history', p) - Contribution(history, p)
                    = Contribution(history, o) - Contribution(history, p)]_vars

\* C21's case: the turn was played (half_pot, call) after bets on the
\* streets before
C21_Witness ==
    /\ history.river = None
    /\ history.turn # None
    /\ history.turn.seq = <<"half_pot", "call">>
    /\ Last(history.flop.seq) = "call"
    /\ pot_size(StreetStart(history)).pot > 2 * BIG_BLIND

\* C22: for every flop start reached by legal preflop play at which
\* half_pot is a legal opening action, the legal actions after the flop
\* sequence (half_pot,) are exactly fold, call, min_raise, all-in: the
\* stack filter removes none of the four.
C22_AfterHalfPotOnFlop ==
    (history.flop # None /\ history.flop.seq = <<"half_pot">> /\ history.turn = None) =>
        /\ "half_pot" \in LegalNow(StreetStart(history))
        /\ legal_actions(history) =
                [err |-> "", val |-> <<"fold", "call", "min_raise", "all-in">>]

\* C22's case: half_pot opens the flop after the longest preflop line that
\* leaves chips behind
C22_Witness ==
    /\ history.flop # None
    /\ history.flop.seq = <<"half_pot">>
    /\ history.preflop.seq = <<"limp", "raise", "3-bet", "4-bet", "call">>
    /\ Range(legal_actions(history).val) = {"fold", "call", "min_raise", "all-in"}

\* C23: an all-in never ends the hand by itself: a street whose sequence
\* ends in all-in is not over and hand_over() is false; after all-in
\* followed by call on preflop, flop or turn, hand_over() is still false,
\* the next street is entered with both stacks at zero and legal_actions()
\* offers check and all-in there; the hand ends only through a fold or
\* through the river street closing.
C23_AllInDoesNotEndHand ==
    LET seq == LastStreetSeq(history)
        n == Len(seq)
    IN  /\ (n >= 1 /\ seq[n] = "all-in") =>
                /\ ~EndsInCallOrTwoChecks(seq)
                /\ seq = StreetSeq(history, street(history))
                /\ ~hand_over(history)
        /\ (n >= 2 /\ seq[n - 1] = "all-in" /\ seq[n] = "call" /\ history.river = None) =>
                /\ ~hand_over(history)
                /\ street(history) \in {"flop", "turn", "river"}
                /\ current_street_history(history) = None
                /\ stack_sizes(history) = <<0, 0>>
                /\ legal_actions(history) = [err |-> "", val |-> <<"check", "all-in">>]
        /\ hand_over(history) =>
                \/ MostRecentAction(history) = "fold"
                \/ (history.river # None /\ EndsInCallOrTwoChecks(history.river.seq))

\* C23's case: the turn is entered after an all-in on the flop was called
C23_Witness ==
    /\ street(history) = "turn"
    /\ history.turn = None
    /\ Len(history.flop.seq) >= 2
    /\ history.flop.seq[Len(history.flop.seq) - 1] = "all-in"
    /\ ~hand_over(history)
    /\ "all-in" \in LegalNow(history)

\* C26: chips are conserved by the replay: for every history reached by
\* legal play, pot_size() plus the two remaining stacks is 2 * STACK_SIZE,
\* and a fold adds nothing to the pot and debits no stack.
C26_ChipsConserved ==
    /\ [](LET r == pot_size(history) IN
            r.pot + r.stack_sizes[1] + r.stack_sizes[2] = 2 * STACK_SIZE)
    /\ [][AllTokens(history') = Append(AllTokens(history), "fold") =>
            /\ pot_size(history').pot = pot_size(history).pot
            /\ stack_sizes(history') = stack_sizes(history)]_vars

\* C26's case: a bet on the river was answered by a fold
C26_Witness ==
    /\ history.river # None
    /\ Len(history.river.seq) = 2
    /\ history.river.seq[2] = "fold"
    /\ history.river.seq[1] = "pot"
    /\ stack_sizes(history)[1] < stack_sizes(history)[2]

\* C28: for every history reached by legal play with hand_over() false,
\* legal_actions() returns without error a non-empty tuple: fold, call,
\* check and all-in, when the table offers them, are never removed by the
\* stack filter.
C28_LegalActionsNonEmpty ==
    ~hand_over(history) =>
        LET r == legal_actions(history)
            offered == Range(ClaimedCandidates(street(history), last_action(history)))
        IN  /\ r.err = ""
            /\ r.val # <<>>
            /\ offered \cap {"fold", "call", "check", "all-in"} \subseteq Range(r.val)

\* C28's case: on the river the filter has removed the raise and kept
\* fold, call and all-in
C28_Witness ==
    /\ ~hand_over(history)
    /\ street(history) = "river"
    /\ last_action(history) = "min_raise"
    /\ legal_actions(history).val = <<"fold", "call", "all-in">>

\* C29: once street() is 'over', applying any action token returns a
\* history with the same four token sequences as before: the action is
\* dropped, and pot, stacks, street and hand_over (true) are unchanged, so
\* the over state is absorbing under apply.
C29_OverIsAbsorbing ==
    [][street(history) = "over" =>
        /\ \A x \in {"preflop", "flop", "turn", "river"} :
                StreetSeq(history', x) = StreetSeq(history, x)
        /\ pot_size(history') = pot_size(history)
        /\ street(history') = "over"
        /\ hand_over(history) /\ hand_over(history')]_vars

\* C29's case: an action was applied to a history whose river was closed by
\* its first action; the river, a tuple before, has been copied into a list
\* and nothing was appended
C29_Witness ==
    /\ street(history) = "over"
    /\ history.river.kind = "list"
    /\ history.river.seq = <<"call">>

\* C27: every play that starts from the empty preflop history and applies
\* only actions returned by legal_actions() while hand_over() is false
\* reaches a history with hand_over() true after a bounded number of
\* actions: preflop has at most 6 actions, no history has more than 19,
\* and while the hand is not over some action can be applied.
C27_PlayTerminates ==
    /\ [](Len(history.preflop.seq) <= 6 /\ HistoryLen(history) <= 19)
    /\ [](~hand_over(history) => LegalNow(history) # {})
    /\ <>[]hand_over(history)

\* C27's case: a hand that took the longest preflop line has ended on the
\* river
C27_Witness ==
    /\ hand_over(history)
    /\ Len(history.preflop.seq) = 6
    /\ history.river # None
    /\ street(history) = "over"

\* the number of suits that occur in tuple up to the first occurrence of s
OrderOfFirstOccurrence(tuple, s) ==
    LET first == CHOOSE i \in 1..Len(tuple) : tuple[i] = s /\ \A j \in 1..(i - 1) : tuple[j] # s
    IN  Cardinality({tuple[j] : j \in 1..first})

\* the labels s, h, d, c handed out in the order in which the suits of tuple
\* first occur
GreedyRelabeling(tuple) == [k \in 1..Len(tuple) |-> LABELS[OrderOfFirstOccurrence(tuple, tuple[k])]]

\* the relabelings of all ordered 5-tuples of suits
GreedyTable == [tuple \in [1..5 -> Range(SUITS)] |-> GreedyRelabeling(tuple)]

\* C24: the precomputed suit table has an entry for every one of the
\* 4^5 = 1024 ordered suit 5-tuples, and each entry is the greedy
\* relabeling of that tuple (labels s, h, d, c in order of first
\* occurrence); hence for every 5-card hand isomorphic_hand returns what
\* sorting the hand, relabeling greedily and sorting again returns; and no
\* lookup modifies the table.
C24_TableIsGreedyRelabeling ==
    /\ [](/\ Cardinality(DOMAIN isomorphic_suits) = 1024
          /\ isomorphic_suits = GreedyTable
          /\ canon.fn = "isomorphic_hand" =>
                /\ canon.err = ""
                /\ canon.val = greedy_isomorphic_hand(hand).val)
    /\ [][isomorphic_suits' = isomorphic_suits]_vars

\* C24's case: isomorphic_hand has looked up the suits of a hand of three
\* suits and relabeled it
C24_Witness ==
    /\ canon.fn = "isomorphic_hand"
    /\ Cardinality(SuitsOf(hand)) = 3
    /\ canon.val # hand
    /\ Len(canon.val) = 5

\* the bets and raises read in the round of betting under way
BetsAndRaises == Cardinality({i \in 1..Len(game.inputs) : game.inputs[i] \in {"bet", "raise"}})

\* a bet was made in the round and is not yet answered by a call or a fold
BetOutstanding ==
    /\ \E i \in 1..Len(game.inputs) : game.inputs[i] = "bet"
    /\ \A i \in 1..Len(game.inputs) : game.inputs[i] \notin {"call", "fold"}

\* C25: in a round of betting of Rhode Island Hold'em the number of bet and
\* raise actions never exceeds 3; once three have been made the player to act
\* is offered exactly call and fold; check and bet are offered only when no
\* bet is outstanding, and call, fold (and raise, below the limit) only when
\* one is.
C25_BetLimit ==
    game.pc = "input" =>
        /\ BetsAndRaises <= 3
        /\ BetsAndRaises = 3 => Offered = {"call", "fold"}
        /\ ~BetOutstanding => Offered = {"check", "bet"}
        /\ BetOutstanding /\ BetsAndRaises < 3 => Offered = {"call", "fold", "raise"}
        /\ BetOutstanding /\ BetsAndRaises >= 3 => Offered = {"call", "fold"}

\* C25's case: on the flop a check, a bet and two raises were read, and the
\* player to act is offered call and fold
C25_Witness ==
    /\ game.pc = "input"
    /\ game.street = 1
    /\ game.inputs = <<"check", "bet", "raise", "raise">>
    /\ Offered = {"call", "fold"}

====
